---- MODULE Spec2Model ----
(***************************************************************************)
(* imessage-wrapped.py: the argument parsing at module load, main()'s      *)
(* battery of year-scoped rollup queries over the message table, and       *)
(* get_contact_name()'s multi-store, multi-pattern contact lookup.         *)
(*                                                                         *)
(* Text the code inspects character by character (identifiers, phone       *)
(* numbers, command-line tokens, names) is a sequence of one-character     *)
(* strings.  A label of a report line is a sequence of strings.            *)
(***************************************************************************)
EXTENDS Integers, Sequences, FiniteSets, TLC

VARIABLES
    argv,          \* sys.argv[1:]
    pc,            \* position of the process in the script
    YEAR,          \* module global YEAR
    CSV_EXPORT,    \* module global CSV_EXPORT
    csv_filename,  \* module global _csv_filename
    dbStatus,      \* chat.db on disk: "ok", "missing" or "unopenable"
    log,           \* rows of the message table (with their joined handles)
    dbConn,        \* the chat.db connection: "none", "open" or "closed"
    total,         \* main(): total, sent, received
    sent,
    received,
    given,         \* main(): given, got
    got,
    csv_rows,      \* main(): csv_rows
    console,       \* the statistics printed so far, as <<section, label, value>>
    bars,          \* lengths of the monthly bars printed
    bubble,        \* the figures of the Blue vs Green section, <<>> if not printed
    csvFile,       \* the file write_csv produced, <<>> if none
    exitStatus,    \* process exit status, NoExit while running
    contact_id,    \* get_contact_name(): its argument
    stores,        \* the contact stores on disk, primary first, then the globbed ones
    rpc,           \* get_contact_name() called on its own: "call" or "returned"
    rName,         \* its return value
    rQueries,      \* the queries it ran, in order, as <<store, pattern, field>>
    leaked         \* contact-store connections opened and never closed

vars == <<argv, pc, YEAR, CSV_EXPORT, csv_filename, dbStatus, log, dbConn, total,
          sent, received, given, got, csv_rows, console, bars, bubble, csvFile,
          exitStatus, contact_id, stores, rpc, rName, rQueries, leaked>>

mainVars == <<argv, pc, YEAR, CSV_EXPORT, csv_filename, dbStatus, log, dbConn, total,
              sent, received, given, got, csv_rows, console, bars, bubble, csvFile,
              exitStatus>>

resolverVars == <<contact_id, stores, rpc, rName, rQueries>>

(***************************************************************************)
(* Bounds of the model.                                                    *)
(***************************************************************************)
MaxRows == 2        \* rows in the message table
MaxGlob == 1        \* contact stores matched by the Sources/* glob
MaxContacts == 1    \* contacts in one contact store

(***************************************************************************)
(* Values.                                                                 *)
(***************************************************************************)
\* Python None / SQL NULL in a text column.
None == <<"None">>
\* SQL NULL in an integer result (SUM over no rows); counts are never negative.
NoneInt == -1
\* No exit status yet.
NoExit == -1

Min(a, b) == IF a < b THEN a ELSE b

DigitChars == <<"0", "1", "2", "3", "4", "5", "6", "7", "8", "9">>
Digits == {DigitChars[i] : i \in 1..10}
DigitVal(c) == (CHOOSE i \in 1..10 : DigitChars[i] = c) - 1

\* str.isdigit(): non-empty and every character a digit.
IsDigit(s) == Len(s) > 0 /\ \A i \in 1..Len(s) : s[i] \in Digits

\* str.startswith(p)
StartsWith(s, p) == Len(s) >= Len(p) /\ SubSeq(s, 1, Len(p)) = p

\* s[n:] with n >= 0
DropFirst(s, n) == SubSeq(s, n + 1, Len(s))

\* str.strip(): leading and trailing whitespace removed.
RECURSIVE LStrip(_)
LStrip(s) == IF Len(s) > 0 /\ s[1] = " " THEN LStrip(Tail(s)) ELSE s
RECURSIVE RStrip(_)
RStrip(s) == IF Len(s) > 0 /\ s[Len(s)] = " " THEN RStrip(SubSeq(s, 1, Len(s) - 1)) ELSE s
Strip(s) == RStrip(LStrip(s))

\* ''.join(filter(str.isdigit, s))
DigitsOnly(s) == SelectSeq(s, LAMBDA c : c \in Digits)

\* int(s) of Python: an optional sign, then digits only; anything else raises ValueError.
IntParses(s) ==
    \/ IsDigit(s)
    \/ Len(s) > 1 /\ s[1] \in {"+", "-"} /\ IsDigit(Tail(s))
RECURSIVE NatValue(_)
NatValue(s) == IF s = <<>> THEN 0 ELSE 10 * NatValue(SubSeq(s, 1, Len(s) - 1)) + DigitVal(s[Len(s)])
IntValue(s) ==
    IF s[1] = "-" THEN 0 - NatValue(Tail(s))
    ELSE IF s[1] = "+" THEN NatValue(Tail(s))
    ELSE NatValue(s)

\* str(n) for n >= 0
RECURSIVE IntToStr(_)
IntToStr(n) == IF n < 10 THEN <<DigitChars[n + 1]>> ELSE IntToStr(n \div 10) \o <<DigitChars[(n % 10) + 1]>>

\* f"{i:02d}" for 0 <= i <= 99
Fmt02(i) == <<DigitChars[(i \div 10) + 1], DigitChars[(i % 10) + 1]>>

(***************************************************************************)
(* get_contact_name(contact_id)                                            *)
(***************************************************************************)
\* The ordered list of match patterns.
search_patterns(id) ==
    LET normalized_id == Strip(id)
        base == IF StartsWith(normalized_id, <<"+">>)
                THEN <<normalized_id, DropFirst(normalized_id, 1), DropFirst(normalized_id, 2)>>
                ELSE <<normalized_id>>
        digits_only == DigitsOnly(normalized_id)
    IN  IF digits_only /= <<>> /\ ~(\E i \in 1..Len(base) : base[i] = digits_only)
        THEN IF Len(digits_only) = 11 /\ StartsWith(digits_only, <<"1">>)
             THEN base \o <<digits_only, DropFirst(digits_only, 1)>>
             ELSE base \o <<digits_only>>
        ELSE base

\* REPLACE(REPLACE(REPLACE(REPLACE(REPLACE(ZFULLNUMBER,' ',''),'-',''),'(',''),')',''),'+','')
NormalizedNumber(full) == SelectSeq(full, LAMBDA c : c \notin {" ", "-", "(", ")", "+"})

\* text LIKE '%pattern%' for a pattern without the metacharacters % and _ (the
\* identifiers of the model have neither, and no letters whose case could differ).
Like(text, pattern) ==
    \E i \in 0..(Len(text) - Len(pattern)) : SubSeq(text, i + 1, i + Len(pattern)) = pattern

\* The phone query with LIMIT 1: the first row, in the table's scan order, whose
\* normalized number contains the pattern; 0 if none.  A NULL number matches nothing.
PhoneHit(contacts, pattern) ==
    LET hits == {i \in 1..Len(contacts) :
                    /\ contacts[i].phone /= None
                    /\ Like(NormalizedNumber(contacts[i].phone), pattern)}
    IN  IF hits = {} THEN 0 ELSE CHOOSE i \in hits : \A j \in hits : i <= j

\* The email query with LIMIT 1: exact match of the address.
EmailHit(contacts, pattern) ==
    LET hits == {i \in 1..Len(contacts) :
                    contacts[i].email /= None /\ contacts[i].email = pattern}
    IN  IF hits = {} THEN 0 ELSE CHOOSE i \in hits : \A j \in hits : i <= j

\* " ".join(parts) if parts else contact_id, parts the non-empty name parts.
ComposeName(c, id) ==
    LET hasFirst == c.first /= None /\ c.first /= <<>>
        hasLast == c.last /= None /\ c.last /= <<>>
    IN  IF hasFirst /\ hasLast THEN c.first \o <<" ">> \o c.last
        ELSE IF hasFirst THEN c.first
        ELSE IF hasLast THEN c.last
        ELSE id

\* The pattern loop with the two queries in the other order: email first, the phone
\* query only when it finds nothing.
RECURSIVE PatternLoopEmailFirst(_, _, _, _, _, _)
PatternLoopEmailFirst(s, contacts, pats, p, id, queries) ==
    IF p > Len(pats)
    THEN [hit |-> FALSE, name |-> id, queries |-> queries]
    ELSE LET em == EmailHit(contacts, pats[p])
             ph == IF em = 0 THEN PhoneHit(contacts, pats[p]) ELSE 0
             q == IF em = 0 THEN queries \o <<<<s, p, "email">>, <<s, p, "phone">>>>
                  ELSE queries \o <<<<s, p, "email">>>>
             r == IF em /= 0 THEN em ELSE ph
         IN  IF r /= 0
             THEN [hit |-> TRUE, name |-> ComposeName(contacts[r], id), queries |-> q]
             ELSE PatternLoopEmailFirst(s, contacts, pats, p + 1, id, q)

\* The loop over search_patterns in one opened store, from pattern p on.  The phone
\* query runs first and the email query only when it finds nothing; a hit closes the
\* connection and returns.
RECURSIVE PatternLoop(_, _, _, _, _, _)
PatternLoop(s, contacts, pats, p, id, queries) ==
    IF p > Len(pats)
    THEN [hit |-> FALSE, name |-> id, queries |-> queries]
    ELSE LET ph == PhoneHit(contacts, pats[p])
             em == IF ph = 0 THEN EmailHit(contacts, pats[p]) ELSE 0
             q == IF ph = 0 THEN queries \o <<<<s, p, "phone">>, <<s, p, "email">>>>
                  ELSE queries \o <<<<s, p, "phone">>>>
             r == IF ph /= 0 THEN ph ELSE em
         IN  IF r /= 0
             THEN [hit |-> TRUE, name |-> ComposeName(contacts[r], id), queries |-> q]
             ELSE PatternLoop(s, contacts, pats, p + 1, id, q)

\* The loop over the candidate stores, from store s on.  A store is
\*   "missing"     not on disk: skipped before any connection is made;
\*   "unopenable"  sqlite3.connect raises OperationalError: no connection exists;
\*   "corrupt"     connect succeeds and the first execute raises DatabaseError or
\*                 OperationalError: the except clause continues without closing;
\*   "ok"          queried; closed on a hit and after the last pattern.
RECURSIVE StoreLoop(_, _, _, _, _)
StoreLoop(sts, s, id, queries, open) ==
    IF s > Len(sts)
    THEN [name |-> id, queries |-> queries, leaked |-> open]
    ELSE IF sts[s].status \in {"missing", "unopenable"}
    THEN StoreLoop(sts, s + 1, id, queries, open)
    ELSE IF sts[s].status = "corrupt"
    THEN StoreLoop(sts, s + 1, id, queries, open + 1)
    ELSE LET r == PatternLoop(s, sts[s].contacts, search_patterns(id), 1, id, queries)
         IN  IF r.hit
             THEN [name |-> r.name, queries |-> r.queries, leaked |-> open]
             ELSE StoreLoop(sts, s + 1, id, r.queries, open)

get_contact_name(sts, id) == StoreLoop(sts, 1, id, <<>>, 0)

(***************************************************************************)
(* date_filter(year) and the month of a row                                *)
(***************************************************************************)
APPLE_EPOCH_OFFSET == 978307200

\* A date column holds nanoseconds since 2001-01-01, beyond the integers TLC
\* computes with; it is kept as whole seconds s and the remainder ns, so that
\* date/1000000000 (integer division of a non-negative number) is s.
DateSeconds(date) == date.s

\* datetime(t, 'unixepoch'): the civil date and time of day of Unix time t >= 0.
Datetime(t) ==
    LET days == t \div 86400
        secs == t % 86400
        z == days + 719468
        era == z \div 146097
        doe == z - era * 146097
        yoe == (doe - doe \div 1460 + doe \div 36524 - doe \div 146096) \div 365
        doy == doe - (365 * yoe + yoe \div 4 - yoe \div 100)
        mp == (5 * doy + 2) \div 153
        d == doy - (153 * mp + 2) \div 5 + 1
        m == IF mp < 10 THEN mp + 3 ELSE mp - 9
        y == yoe + era * 400 + (IF m <= 2 THEN 1 ELSE 0)
    IN  [y |-> y, m |-> m, d |-> d, hh |-> secs \div 3600, mi |-> (secs % 3600) \div 60, ss |-> secs % 60]

\* Dates of the message tables of the model: 2024-03-15 12:00:00, the last
\* nanosecond of 2024, the first of 2025 (UTC).
DatePool ==
    << [s |-> 732196800, ns |-> 0],
       [s |-> 757382399, ns |-> 999999999],
       [s |-> 757382400, ns |-> 0] >>

\* datetime(date/1000000000 + APPLE_EPOCH_OFFSET, 'unixepoch'), tabulated over DatePool.
DatetimeOf == [d \in {DatePool[i] : i \in 1..Len(DatePool)} |->
                  Datetime(DateSeconds(d) + APPLE_EPOCH_OFFSET)]
RowDatetime(r) == DatetimeOf[r.date]

\* 'YYYY-MM-DD HH:MM:SS' >= 'year-01-01' and < 'year-01-01' as SQLite compares the
\* two texts, for four-digit years: field by field, and on an equal prefix the
\* longer text (the datetime) is the greater.
TextGE(dt, year) ==
    \/ dt.y > year
    \/ dt.y = year /\ (dt.m > 1 \/ (dt.m = 1 /\ dt.d >= 1))
TextLT(dt, year) ==
    \/ dt.y < year
    \/ dt.y = year /\ (dt.m < 1 \/ (dt.m = 1 /\ dt.d < 1))

date_filter(r, year) ==
    TextGE(RowDatetime(r), year) /\ TextLT(RowDatetime(r), year + 1)

\* strftime('%m', datetime(...))
StrftimeMonth(r) == Fmt02(RowDatetime(r).m)

months == <<"Jan", "Feb", "Mar", "Apr", "May", "Jun", "Jul", "Aug", "Sep", "Oct", "Nov", "Dec">>

\* TAPBACKS and the CASE of the top-reactions query (the same six glyphs).
TAPBACKS(t) ==
    CASE t = 2000 -> <<"heart">>
      [] t = 2001 -> <<"thumbs-up">>
      [] t = 2002 -> <<"thumbs-down">>
      [] t = 2003 -> <<"laugh">>
      [] t = 2004 -> <<"emphasis">>
      [] t = 2005 -> <<"question">>
      [] OTHER -> <<"?">>

(***************************************************************************)
(* The queries of main()                                                   *)
(***************************************************************************)
\* SUM(CASE WHEN cond THEN 1 ELSE 0 END) over rows, cond a function of the row: NULL
\* over no rows.
SumCase(rows, cond) ==
    IF rows = {} THEN NoneInt ELSE Cardinality({r \in rows : cond[r]})

\* GROUP BY key with COUNT(*), key a function of the row: the set of <<key, cnt>>.
GroupCount(rows, key) ==
    {<<k, Cardinality({r \in rows : key[r] = k})>> : k \in {key[r] : r \in rows}}

\* ORDER BY cnt DESC: the groups by descending count.  SQL leaves the order of equal
\* counts to the store; CHOOSE is one fixed, unspecified order.
RECURSIVE OrderByCntDesc(_)
OrderByCntDesc(groups) ==
    IF groups = {} THEN <<>>
    ELSE LET g == CHOOSE x \in groups : \A y \in groups : y[2] <= x[2]
         IN  <<g>> \o OrderByCntDesc(groups \ {g})

\* LIMIT n
Limit(seq, n) == SubSeq(seq, 1, Min(n, Len(seq)))

\* WHERE date_filter alone, without the type condition.
GenuineAnyType(rows, year) == {r \in rows : date_filter(r, year)}
\* WHERE date_filter AND associated_message_type = 0
Genuine(rows, year) == {r \in rows : date_filter(r, year) /\ r.amt = 0}

\* WHERE date_filter AND associated_message_type BETWEEN 2000 AND 2005
ReactionsTapbacksOnly(rows, year) ==
    {r \in rows : date_filter(r, year) /\ r.amt >= 2000 /\ r.amt <= 2005}
\* WHERE date_filter AND associated_message_type >= 2000
Reactions(rows, year) == {r \in rows : date_filter(r, year) /\ r.amt >= 2000}

\* The message x chat_message_join x chat x chat_handle_join x handle join, grouped by
\* h.id: a message counts once for every handle of its chat.
ContactCounts(rows) ==
    LET hs == UNION {r.handles : r \in rows}
    IN  {<<h, Cardinality({r \in rows : h \in r.handles})>> : h \in hs}

\* {p:.1f} of p = 100 * cnt / tot, in tenths of a percent (round to nearest).
PctTenths(cnt, tot) == IF tot /= 0 THEN (2000 * cnt + tot) \div (2 * tot) ELSE 0

\* write_csv(csv_rows, year, filename)
write_csv(rows, year, filename) ==
    [name |-> IF filename /= None THEN filename
              ELSE <<"imessage-wrapped-">> \o IntToStr(year) \o <<".csv">>,
     header |-> <<"Section", "Label", "Value">>,
     rows |-> rows]

\* The names get_contact_name returns for a ranking, and the connections it leaks.
RECURSIVE ResolvedRows(_, _, _)
ResolvedRows(ranking, sts, i) ==
    IF i > Len(ranking) THEN <<>>
    ELSE <<<<get_contact_name(sts, ranking[i][1]).name, ranking[i][2]>>>> \o ResolvedRows(ranking, sts, i + 1)
RECURSIVE LeakedBy(_, _, _)
LeakedBy(ranking, sts, i) ==
    IF i > Len(ranking) THEN 0
    ELSE get_contact_name(sts, ranking[i][1]).leaked + LeakedBy(ranking, sts, i + 1)

\* <<section, label, value>> for every <<label, value>> of a result.
Entries(section, result) == [i \in 1..Len(result) |-> <<section, result[i][1], result[i][2]>>]

RECURSIVE SumCnt(_)
SumCnt(result) == IF result = <<>> THEN 0 ELSE result[1][2] + SumCnt(Tail(result))

MaxCnt(result) == CHOOSE m \in {result[i][2] : i \in 1..Len(result)} :
                     \A i \in 1..Len(result) : result[i][2] <= m

\* dict.get(key, 0) on {row[0]: row[1] for row in result}
GetCnt(result, key) ==
    IF \E i \in 1..Len(result) : result[i][1] = key
    THEN result[CHOOSE i \in 1..Len(result) : result[i][1] = key][2]
    ELSE 0

(***************************************************************************)
(* Inputs                                                                  *)
(***************************************************************************)
\* datetime.now().year on the day of the run.
NowYear == 2025

\* Command lines.
TokCsv == <<"-", "-", "c", "s", "v">>
Tok2025 == <<"2", "0", "2", "5">>
TokOut == <<"o", "u", "t", ".", "c", "s", "v">>
ArgLists ==
    { <<>>, <<TokCsv, Tok2025>>, <<TokCsv, TokOut, Tok2025>>, <<TokOut>> }

\* Handles of the message log.
H1 == <<"+", "1", "5", "0", "3", "5", "5", "5", "1", "2", "3", "4">>
H2 == <<"a", "@", "b">>

\* What a row is besides its date and direction: a genuine message on one of the
\* transports (with the handles of its chat), a sticker, a tapback, a custom emoji
\* reaction, a removed tapback.
KindPool ==
    << [amt |-> 0, emoji |-> None, service |-> <<"iMessage">>, handles |-> {H1}],
       [amt |-> 0, emoji |-> None, service |-> <<"SMS">>, handles |-> {H1, H2}],
       [amt |-> 0, emoji |-> None, service |-> <<"RCS">>, handles |-> {H2}],
       [amt |-> 0, emoji |-> None, service |-> None, handles |-> {}],
       [amt |-> 1000, emoji |-> None, service |-> <<"iMessage">>, handles |-> {H1}],
       [amt |-> 2001, emoji |-> None, service |-> <<"SMS">>, handles |-> {H2}],
       [amt |-> 2006, emoji |-> <<"party">>, service |-> <<"iMessage">>, handles |-> {H1}],
       [amt |-> 3001, emoji |-> None, service |-> <<"iMessage">>, handles |-> {H1}] >>

NumRowCodes == Len(DatePool) * 2 * Len(KindPool)

\* Row number code of the pool, as the row with ROWID rowid.
Row(code, rowid) ==
    LET k == KindPool[((code - 1) % Len(KindPool)) + 1]
        rest == (code - 1) \div Len(KindPool)
    IN  [rowid |-> rowid,
         date |-> DatePool[(rest \div 2) + 1],
         is_from_me |-> rest % 2,
         amt |-> k.amt, emoji |-> k.emoji, service |-> k.service, handles |-> k.handles]

\* The message tables of at most MaxRows rows: a code or 0 (no row) for every ROWID.
\* The order of rows matters to no query, so each table is listed once, codes ascending.
TableCodes ==
    {f \in [1..MaxRows -> 0..NumRowCodes] : \A i \in 1..(MaxRows - 1) : f[i] <= f[i + 1]}
Table(f) == {Row(f[i], i) : i \in {j \in 1..MaxRows : f[j] /= 0}}

\* Contact records.
Contact(first, last, phone, email) == [first |-> first, last |-> last, phone |-> phone, email |-> email]
Ten == <<"5", "0", "3", "5", "5", "5", "1", "2", "3", "4">>
Formatted == <<" ", "(", "5", "0", "3", ")", " ", "5", "5", "5", "-", "1", "2", "3", "4">>
Alice == Contact(<<"A", "l">>, <<"S", "m">>, Ten, None)
Bob == Contact(None, <<"J", "o">>, <<"+", "1">> \o Formatted, H2)
Anon == Contact(<<>>, None, Ten, None)
ContactPool == {Alice, Bob, Anon}

\* The address book main() resolves against in the runs of Spec.
AddressBook == << [status |-> "ok", contacts |-> <<Alice>>] >>

\* Identifiers handed to get_contact_name on its own: an optional "+", an optional
\* country digit "1", and nothing, ten digits, a punctuated number or an email
\* address; and two identifiers with surrounding whitespace.
Ids ==
    { pre \o cc \o body : pre \in {<<>>, <<"+">>}, cc \in {<<>>, <<"1">>},
                          body \in {<<>>, Ten, Formatted, H2} }
    \cup { <<" ">>, <<" ">> \o H2 \o <<" ">> }

\* A contact store: the primary path may be absent; a globbed path exists.
StoreContents == UNION { [1..n -> ContactPool] : n \in 0..MaxContacts }
OkStores == { [status |-> "ok", contacts |-> c] : c \in StoreContents }
BadStore(status) == [status |-> status, contacts |-> <<>>]
PrimaryStores == OkStores \cup {BadStore("missing"), BadStore("unopenable"), BadStore("corrupt")}
GlobStores == OkStores \cup {BadStore("unopenable"), BadStore("corrupt")}
StoreLists ==
    UNION { { <<p>> \o g : p \in PrimaryStores, g \in [1..n -> GlobStores] } : n \in 0..MaxGlob }

(***************************************************************************)
(* The script                                                              *)
(***************************************************************************)
Init ==
    /\ argv \in ArgLists
    /\ pc = "load"
    /\ YEAR = 0
    /\ CSV_EXPORT = FALSE
    /\ csv_filename = None
    /\ dbStatus \in {"ok", "missing", "unopenable"}
    /\ \E f \in TableCodes : /\ dbStatus /= "ok" => \A i \in 1..MaxRows : f[i] = 0
                           /\ log = Table(f)
    /\ dbConn = "none"
    /\ total = 0 /\ sent = 0 /\ received = 0 /\ given = 0 /\ got = 0
    /\ csv_rows = <<>>
    /\ console = <<>>
    /\ bars = <<>>
    /\ bubble = <<>>
    /\ csvFile = <<>>
    /\ exitStatus = NoExit
    /\ contact_id = <<>>
    /\ stores = AddressBook
    /\ rpc = "idle"
    /\ rName = <<>>
    /\ rQueries = <<>>
    /\ leaked = 0

\* Lines 18-34: the arguments are parsed when the module is loaded.
LoadModule ==
    /\ pc = "load"
    /\ LET flag == \E i \in 1..Len(argv) : argv[i] = TokCsv
           idx == IF flag THEN CHOOSE i \in 1..Len(argv) :
                                  argv[i] = TokCsv /\ \A j \in 1..(i - 1) : argv[j] /= TokCsv
                  ELSE 0
           named == /\ flag
                    /\ idx + 1 <= Len(argv)
                    /\ ~StartsWith(argv[idx + 1], <<"-", "-">>)
                    /\ ~IsDigit(argv[idx + 1])
           keep == IF named THEN {i \in 1..Len(argv) : i /= idx /\ i /= idx + 1}
                   ELSE IF flag THEN {i \in 1..Len(argv) : i /= idx}
                   ELSE 1..Len(argv)
           args == SelectSeq([i \in 1..Len(argv) |-> <<i, argv[i]>>], LAMBDA e : e[1] \in keep)
       IN  IF args /= <<>> /\ ~IntParses(args[1][2])
           THEN \* int() raises ValueError: traceback, exit status 1
                /\ pc' = "exited"
                /\ exitStatus' = 1
                /\ UNCHANGED <<YEAR, CSV_EXPORT, csv_filename>>
           ELSE /\ YEAR' = IF args /= <<>> THEN IntValue(args[1][2]) ELSE NowYear - 1
                /\ CSV_EXPORT' = flag
                /\ csv_filename' = IF named THEN argv[idx + 1] ELSE None
                /\ pc' = "get_db"
                /\ UNCHANGED exitStatus
    /\ UNCHANGED <<argv, dbStatus, log, dbConn, total, sent, received, given, got,
                   csv_rows, console, bars, bubble, csvFile>>
    /\ UNCHANGED <<resolverVars, leaked>>

\* get_db(), called first by main().
get_db ==
    /\ pc = "get_db"
    /\ IF dbStatus = "ok"
       THEN /\ dbConn' = "open"
            /\ pc' = "counts"
            /\ UNCHANGED exitStatus
       ELSE \* not DB_PATH.exists(), or connect raises OperationalError: sys.exit(1)
            /\ pc' = "exited"
            /\ exitStatus' = 1
            /\ UNCHANGED dbConn
    /\ UNCHANGED <<argv, YEAR, CSV_EXPORT, csv_filename, dbStatus, log, total, sent,
                   received, given, got, csv_rows, console, bars, bubble, csvFile>>
    /\ UNCHANGED <<resolverVars, leaked>>

\* --- Message counts ---, with the early exit.
MessageCounts ==
    /\ pc = "counts"
    /\ LET rows == Genuine(log, YEAR)
           t == Cardinality(rows)
           s == SumCase(rows, [r \in rows |-> r.is_from_me = 1])
           rc == SumCase(rows, [r \in rows |-> r.is_from_me = 0])
           shown == << <<"Messages", <<"Total">>, t>>,
                       <<"Messages", <<"Sent">>, s>>,
                       <<"Messages", <<"Received">>, rc>> >>
       IN  /\ total' = t
           /\ sent' = s
           /\ received' = rc
           /\ IF t = 0
              THEN \* sys.exit(0)
                   /\ pc' = "exited"
                   /\ exitStatus' = 0
                   /\ UNCHANGED <<console, csv_rows>>
              ELSE /\ pc' = "rollups"
                   /\ console' = console \o shown
                   /\ csv_rows' = csv_rows \o shown
                   /\ UNCHANGED exitStatus
    /\ UNCHANGED <<argv, YEAR, CSV_EXPORT, csv_filename, dbStatus, log, dbConn, given,
                   got, bars, bubble, csvFile>>
    /\ UNCHANGED <<resolverVars, leaked>>

\* --- Reaction counts ---: <<given, got>>
ReactionCounts(rows, year) ==
    LET rs == Reactions(rows, year)
        g == SumCase(rs, [r \in rs |-> r.is_from_me = 1])
        rc == SumCase(rs, [r \in rs |-> r.is_from_me = 0])
    IN  <<IF g = NoneInt THEN 0 ELSE g, IF rc = NoneInt THEN 0 ELSE rc>>

\* --- Your tapback style (given) ---
ReactionStyle(rows, year) ==
    LET rs == {r \in rows : /\ date_filter(r, year)
                            /\ r.amt >= 2000 /\ r.amt <= 2005
                            /\ r.is_from_me = 1}
        result == OrderByCntDesc(GroupCount(rs, [r \in rs |-> r.amt]))
    IN  [i \in 1..Len(result) |-> <<"Reaction Style", TAPBACKS(result[i][1]), result[i][2]>>]

\* --- Custom emoji reactions (given) ---
CustomReactions(rows, year) ==
    LET rs == {r \in rows : /\ date_filter(r, year)
                            /\ r.emoji /= None
                            /\ r.is_from_me = 1}
    IN  Entries("Custom Reactions", Limit(OrderByCntDesc(GroupCount(rs, [r \in rs |-> r.emoji])), 10))

\* The monthly volume over rows of every type.
MonthlyVolumeAnyType(rows, year) ==
    LET result == OrderByCntDesc(GroupCount(GenuineAnyType(rows, year), [r \in rows |-> StrftimeMonth(r)]))
    IN  [i \in 1..12 |-> <<"Messages by Month", <<months[i]>>, GetCnt(result, Fmt02(i))>>]

\* --- Monthly volume ---: the month query and the loop over the twelve month names.
MonthlyVolume(rows, year) ==
    LET result == OrderByCntDesc(GroupCount(Genuine(rows, year), [r \in rows |-> StrftimeMonth(r)]))
    IN  [i \in 1..12 |-> <<"Messages by Month", <<months[i]>>, GetCnt(result, Fmt02(i))>>]

\* "#" * int(20 * cnt / max_cnt) if cnt else "": the lengths of the twelve bars.
MonthlyBars(shown) ==
    LET max_cnt == IF \E i \in 1..12 : shown[i][3] > 0
                   THEN MaxCnt([i \in 1..12 |-> <<shown[i][2], shown[i][3]>>])
                   ELSE 1
    IN  [i \in 1..12 |-> (20 * shown[i][3]) \div max_cnt]

\* COALESCE(associated_message_emoji, CASE associated_message_type ... END)
ReactionEmoji(r) ==
    IF r.emoji /= None THEN r.emoji
    ELSE IF r.amt >= 2000 /\ r.amt <= 2005 THEN TAPBACKS(r.amt)
    ELSE None

\* --- Top reactions overall ---
TopReactions(rows, year) ==
    LET groups == {g \in GroupCount(Reactions(rows, year), [r \in rows |-> ReactionEmoji(r)]) : g[1] /= None}
    IN  Entries("Top Reactions", Limit(OrderByCntDesc(groups), 10))

\* --- Blue vs Green Bubbles ---: the figures printed, <<>> when the section is not.
BlueVsGreen(rows, year) ==
    LET rs == {r \in Genuine(rows, year) : r.service /= None}
        bubble_rows == OrderByCntDesc(GroupCount(rs, [r \in rs |-> r.service]))
        bubble_total == SumCnt(bubble_rows)
        imessage_cnt == GetCnt(bubble_rows, <<"iMessage">>)
        sms_cnt == GetCnt(bubble_rows, <<"SMS">>)
    IN  IF bubble_rows /= <<>>
        THEN << [bubble_total |-> bubble_total,
                 imessage_cnt |-> imessage_cnt,
                 sms_cnt |-> sms_cnt,
                 imessage_pct |-> PctTenths(imessage_cnt, bubble_total),
                 sms_pct |-> PctTenths(sms_cnt, bubble_total)] >>
        ELSE <<>>

BlueVsGreenShown(b) ==
    IF b = <<>> THEN <<>>
    ELSE << <<"Blue vs Green Bubbles", <<"iMessage">>, b[1].imessage_cnt>>,
            <<"Blue vs Green Bubbles", <<"SMS">>, b[1].sms_cnt>> >>

\* --- Top green bubble contacts ---: the ranking before names are resolved.
GreenContacts(rows, year) ==
    Limit(OrderByCntDesc(ContactCounts({r \in Genuine(rows, year) : r.service = <<"SMS">>})), 10)

\* --- Top 10 most texted contacts (yearly) ---: the ranking before names are resolved.
TopContacts(rows, year) ==
    Limit(OrderByCntDesc(ContactCounts(Genuine(rows, year))), 10)

\* --- Top 10 most texted by month ---: the ranking of month i.
MonthData(rows, year, i) ==
    Limit(OrderByCntDesc(ContactCounts({r \in Genuine(rows, year) : StrftimeMonth(r) = Fmt02(i)})), 10)

RECURSIVE ByMonthRows(_, _, _, _)
ByMonthRows(rows, year, sts, i) ==
    IF i > 12 THEN <<>>
    ELSE LET named == ResolvedRows(MonthData(rows, year, i), sts, 1)
         IN  [j \in 1..Len(named) |->
                 <<"Top Contacts by Month", <<months[i], " - ">> \o named[j][1], named[j][2]>>]
             \o ByMonthRows(rows, year, sts, i + 1)

RECURSIVE ByMonthLeaked(_, _, _, _)
ByMonthLeaked(rows, year, sts, i) ==
    IF i > 12 THEN 0
    ELSE LeakedBy(MonthData(rows, year, i), sts, 1) + ByMonthLeaked(rows, year, sts, i + 1)

\* Lines 199-403 of main(): every section after the message counts, in order.  The
\* console shows all of them; csv_rows receives all but the two bubble sections.
Rollups ==
    /\ pc = "rollups"
    /\ LET reactions == ReactionCounts(log, YEAR)
           reactionRows == << <<"Reactions", <<"Given">>, reactions[1]>>,
                              <<"Reactions", <<"Received">>, reactions[2]>> >>
           style == ReactionStyle(log, YEAR)
           customs == CustomReactions(log, YEAR)
           monthly == MonthlyVolume(log, YEAR)
           top == TopReactions(log, YEAR)
           b == BlueVsGreen(log, YEAR)
           green_contacts == GreenContacts(log, YEAR)
           green == Entries("Top Green Bubble Contacts", ResolvedRows(green_contacts, stores, 1))
           top_contacts == TopContacts(log, YEAR)
           contacts == Entries("Top Contacts", ResolvedRows(top_contacts, stores, 1))
           byMonth == ByMonthRows(log, YEAR, stores, 1)
       IN  /\ given' = reactions[1]
           /\ got' = reactions[2]
           /\ bars' = MonthlyBars(monthly)
           /\ bubble' = b
           /\ console' = console \o reactionRows \o style \o customs \o monthly \o top
                            \o BlueVsGreenShown(b) \o green \o contacts \o byMonth
           /\ csv_rows' = csv_rows \o reactionRows \o style \o customs \o monthly \o top
                            \o contacts \o byMonth
           /\ leaked' = leaked + LeakedBy(green_contacts, stores, 1)
                               + LeakedBy(top_contacts, stores, 1)
                               + ByMonthLeaked(log, YEAR, stores, 1)
    /\ pc' = "finish"
    /\ UNCHANGED <<argv, YEAR, CSV_EXPORT, csv_filename, dbStatus, log, dbConn, total,
                   sent, received, csvFile, exitStatus>>
    /\ UNCHANGED resolverVars

\* Lines 404-411: the footer, the export if asked for, db.close(); main() returns and
\* the process ends with status 0.
Finish ==
    /\ pc = "finish"
    /\ csvFile' = IF CSV_EXPORT THEN <<write_csv(csv_rows, YEAR, csv_filename)>> ELSE csvFile
    /\ dbConn' = "closed"
    /\ exitStatus' = 0
    /\ pc' = "exited"
    /\ UNCHANGED <<argv, YEAR, CSV_EXPORT, csv_filename, dbStatus, log, total, sent,
                   received, given, got, csv_rows, console, bars, bubble>>
    /\ UNCHANGED <<resolverVars, leaked>>

Next ==
    \/ LoadModule
    \/ get_db
    \/ MessageCounts
    \/ Rollups
    \/ Finish

Spec == Init /\ [][Next]_vars


(***************************************************************************)
(* get_contact_name called on its own                                      *)
(***************************************************************************)
InitResolve ==
    /\ argv = <<>>
    /\ pc = "idle"
    /\ YEAR = 0
    /\ CSV_EXPORT = FALSE
    /\ csv_filename = None
    /\ dbStatus = "ok"
    /\ log = {}
    /\ dbConn = "none"
    /\ total = 0 /\ sent = 0 /\ received = 0 /\ given = 0 /\ got = 0
    /\ csv_rows = <<>>
    /\ console = <<>>
    /\ bars = <<>>
    /\ bubble = <<>>
    /\ csvFile = <<>>
    /\ exitStatus = NoExit
    /\ contact_id \in Ids
    /\ stores \in StoreLists
    /\ rpc = "call"
    /\ rName = <<>>
    /\ rQueries = <<>>
    /\ leaked = 0

GetContactName ==
    /\ rpc = "call"
    /\ LET r == get_contact_name(stores, contact_id)
       IN  /\ rName' = r.name
           /\ rQueries' = r.queries
           /\ leaked' = leaked + r.leaked
    /\ rpc' = "returned"
    /\ UNCHANGED <<contact_id, stores>>
    /\ UNCHANGED mainVars

NextResolve == GetContactName

SpecResolve == InitResolve /\ [][NextResolve]_vars


(***************************************************************************)
(* Properties                                                              *)
(***************************************************************************)
\* The calendar year and month (UTC) a row falls in.
RowYear(r) == RowDatetime(r).y
RowMonth(r) == RowDatetime(r).m

\* The message counts were printed (the total was not zero).
CountsReported == pc \in {"rollups", "finish"} \/ (pc = "exited" /\ dbConn = "closed")
\* Every section of the report was produced.
RollupsDone == pc = "finish" \/ (pc = "exited" /\ dbConn = "closed")
\* The run ended at the "no messages found" exit.
NoDataExit == pc = "exited" /\ dbConn /= "none" /\ total = 0

Section(entries, name) == SelectSeq(entries, LAMBDA e : e[1] = name)
Abs(x) == IF x < 0 THEN 0 - x ELSE x

\* C1 as stated: given + received reactions equal the number of rows of the year
\* whose associated_message_type is not 0.
C1_ReactionsCoverEveryNonMessageRow ==
    RollupsDone =>
        given + got = Cardinality({r \in log : RowYear(r) = YEAR /\ r.amt /= 0})

\* C1 amended: given + received reactions equal the number of rows of the year whose
\* associated_message_type is at least 2000, given counting those with is_from_me = 1
\* and received those with is_from_me = 0; both are the figures printed and exported.
C1_ReactionsPartitionByDirection ==
    RollupsDone =>
        LET rs == {r \in log : RowYear(r) = YEAR /\ r.amt >= 2000}
        IN  /\ given = Cardinality({r \in rs : r.is_from_me = 1})
            /\ got = Cardinality({r \in rs : r.is_from_me = 0})
            /\ given + got = Cardinality(rs)
            /\ Section(csv_rows, "Reactions") =
                  << <<"Reactions", <<"Given">>, given>>, <<"Reactions", <<"Received">>, got>> >>

C1_Witness ==
    /\ RollupsDone
    /\ given + got = 1
    /\ \E r \in log : RowYear(r) = YEAR /\ r.amt > 2005

\* C2 as stated: the transport percentages printed sum to 100 within one-decimal
\* rounding, the counts behind them sum to their denominator, and with a zero
\* denominator both percentages are 0.
C2_TransportPercentagesSumTo100 ==
    bubble /= <<>> =>
        LET b == bubble[1]
        IN  /\ b.bubble_total > 0 =>
                  /\ b.imessage_cnt + b.sms_cnt = b.bubble_total
                  /\ Abs(b.imessage_pct + b.sms_pct - 1000) <= 1
            /\ b.bubble_total = 0 => b.imessage_pct = 0 /\ b.sms_pct = 0

\* C3 as stated: when the process has ended, or get_contact_name has returned, every
\* connection that was opened has been closed.
C3_ConnectionsClosedOnEveryExit ==
    /\ pc = "exited" => dbConn /= "open" /\ leaked = 0
    /\ rpc = "returned" => leaked = 0

\* C4 as stated: an identifier whose digits are eleven and start with "1" has its
\* digits without the leading "1" among the match patterns, so that a contact stored
\* under the ten-digit number is found and its composed name returned.
C4_ElevenDigitsYieldTenDigitPattern ==
    LET d == DigitsOnly(contact_id)
        pats == search_patterns(contact_id)
    IN  (rpc = "returned" /\ Len(d) = 11 /\ d[1] = "1") =>
            /\ \E i \in 1..Len(pats) : pats[i] = DropFirst(d, 1)
            /\ (stores[1] = [status |-> "ok", contacts |-> <<Alice>>] /\ DropFirst(d, 1) = Ten)
               => rName = <<"A", "l", " ", "S", "m">>

\* A contact corresponds to an identifier when its email address occurs in the
\* identifier, or the identifier has digits and they contain, or are contained in,
\* the digits of the contact's number.
Corresponds(id, c) ==
    \/ c.email /= None /\ c.email /= <<>> /\ Like(id, c.email)
    \/ /\ c.phone /= None
       /\ DigitsOnly(id) /= <<>>
       /\ \/ Like(DigitsOnly(c.phone), DigitsOnly(id))
          \/ Like(DigitsOnly(id), DigitsOnly(c.phone))

\* C5 as stated: an identifier to which no contact of any store corresponds is
\* returned unchanged.
C5_UnknownIdentifierReturnedUnchanged ==
    ( /\ rpc = "returned"
      /\ \A s \in 1..Len(stores) : \A i \in 1..Len(stores[s].contacts) :
             ~Corresponds(contact_id, stores[s].contacts[i]) )
    => rName = contact_id

\* C6 as stated: after a completed run with export enabled, the rows of the export
\* file are the statistics the console showed, each once and in the same order.
C6_ExportMatchesConsole ==
    (pc = "exited" /\ dbConn = "closed" /\ CSV_EXPORT) =>
        csvFile /= <<>> /\ csvFile[1].rows = console

\* C7: the queries run in the order store, then pattern, then phone before email,
\* over the stores that can be queried; they stop at the first one that finds a
\* contact, whose composed name is returned (the identifier if both name parts are
\* empty); when none finds a contact every one of them has run and the identifier is
\* returned.
QueryTriples ==
    {<<s, p, f>> : s \in {i \in 1..Len(stores) : stores[i].status = "ok"},
                   p \in 1..Len(search_patterns(contact_id)),
                   f \in {"phone", "email"}}
Before(t, u) ==
    \/ t[1] < u[1]
    \/ t[1] = u[1] /\ t[2] < u[2]
    \/ t[1] = u[1] /\ t[2] = u[2] /\ t[3] = "phone" /\ u[3] = "email"
Matches(c, pattern, field) ==
    IF field = "phone"
    THEN c.phone /= None /\ Like(NormalizedNumber(c.phone), pattern)
    ELSE c.email /= None /\ c.email = pattern
Finds(t) ==
    \E i \in 1..Len(stores[t[1]].contacts) :
        Matches(stores[t[1]].contacts[i], search_patterns(contact_id)[t[2]], t[3])
FirstFinds == {t \in QueryTriples : Finds(t) /\ \A u \in QueryTriples : Before(u, t) => ~Finds(u)}
Found(t) ==
    LET cs == stores[t[1]].contacts
        pat == search_patterns(contact_id)[t[2]]
        i == CHOOSE k \in 1..Len(cs) :
                 Matches(cs[k], pat, t[3]) /\ \A j \in 1..(k - 1) : ~Matches(cs[j], pat, t[3])
    IN  cs[i]
NameOf(c) ==
    LET parts == SelectSeq(<<c.first, c.last>>, LAMBDA x : x /= None /\ x /= <<>>)
    IN  IF parts = <<>> THEN contact_id
        ELSE IF Len(parts) = 1 THEN parts[1]
        ELSE parts[1] \o <<" ">> \o parts[2]

C7_FirstMatchWins ==
    rpc = "returned" =>
        /\ \A i, j \in 1..Len(rQueries) : i < j => Before(rQueries[i], rQueries[j])
        /\ IF FirstFinds /= {}
           THEN \A t \in FirstFinds :
                   /\ {rQueries[i] : i \in 1..Len(rQueries)} =
                          {u \in QueryTriples : u = t \/ Before(u, t)}
                   /\ rName = NameOf(Found(t))
           ELSE /\ {rQueries[i] : i \in 1..Len(rQueries)} = QueryTriples
                /\ rName = contact_id

\* A contact with no name is found in the first store and a named one would be found
\* in the second: the identifier is returned and the second store is never queried.
C7_Witness ==
    /\ rpc = "returned"
    /\ Len(stores) >= 2
    /\ \E t \in FirstFinds : t[1] = 1 /\ NameOf(Found(t)) = contact_id
    /\ \E u \in QueryTriples : u[1] = 2 /\ Finds(u) /\ NameOf(Found(u)) /= contact_id
    /\ rName = contact_id
    /\ \A i \in 1..Len(rQueries) : rQueries[i][1] = 1

\* C8 as stated: a run over a year without genuine messages ends with status 0, no
\* report entry and no export file; and a run ends with a non-zero status exactly
\* when chat.db is missing or cannot be opened.
C8_ExitStatus ==
    pc = "exited" =>
        /\ NoDataExit => exitStatus = 0 /\ csv_rows = <<>> /\ console = <<>> /\ csvFile = <<>>
        /\ exitStatus /= 0 <=> dbStatus /= "ok"

\* C9: when a total was reported, the monthly volume consists of twelve entries
\* labelled Jan..Dec in that order, each the number of genuine messages of the year
\* in that month (0 when there are none), and they sum to the total.
RECURSIVE SumValues(_)
SumValues(entries) == IF entries = <<>> THEN 0 ELSE entries[1][3] + SumValues(Tail(entries))

C9_MonthlyBucketsSumToTotal ==
    RollupsDone =>
        LET m == Section(csv_rows, "Messages by Month")
        IN  /\ Len(m) = 12
            /\ \A i \in 1..12 :
                  /\ m[i][2] = <<months[i]>>
                  /\ m[i][3] = Cardinality({r \in log : /\ RowYear(r) = YEAR
                                                        /\ r.amt = 0
                                                        /\ RowMonth(r) = i})
            /\ SumValues(m) = total
            /\ Section(console, "Messages by Month") = m

C9_Witness ==
    /\ RollupsDone
    /\ LET m == Section(csv_rows, "Messages by Month")
       IN  m[3][3] = 1 /\ m[12][3] = 1 /\ \A i \in 1..12 : i \notin {3, 12} => m[i][3] = 0
    /\ total = 2

\* C10: when the message counts are reported, sent + received = total, where total
\* counts the genuine rows (associated_message_type = 0) of the year, sent those
\* with is_from_me = 1 and received those with is_from_me = 0.
C10_SentPlusReceivedIsTotal ==
    CountsReported =>
        LET rs == {r \in log : RowYear(r) = YEAR /\ r.amt = 0}
        IN  /\ total = Cardinality(rs)
            /\ sent = Cardinality({r \in rs : r.is_from_me = 1})
            /\ received = Cardinality({r \in rs : r.is_from_me = 0})
            /\ sent + received = total
            /\ Section(console, "Messages") =
                  << <<"Messages", <<"Total">>, total>>,
                     <<"Messages", <<"Sent">>, sent>>,
                     <<"Messages", <<"Received">>, received>> >>

C10_Witness ==
    /\ CountsReported
    /\ sent = 1 /\ received = 1 /\ total = 2

====
